---------------------------- MODULE Spec2Model ----------------------------
(***************************************************************************)
(* A model of bgp.py: the value types IpAddr, IpMask and IpNet.            *)
(*                                                                         *)
(* Python's int is unbounded, and the code relies on it: as_addr shifts    *)
(* 0xFFFFFFFF left by up to 32 bits before reducing it.  TLC's integers    *)
(* are 32-bit signed, so an address-sized Python int is kept here as its   *)
(* binary numeral, least significant bit first and without leading zero    *)
(* bits (0 is the empty sequence), under a sign.  Small Python ints        *)
(* (prefix lengths, shift amounts, octets) are TLC integers.               *)
(***************************************************************************)
EXTENDS Integers, Sequences, FiniteSets, TLC

VARIABLES
    self,      \* the object a method is called on (None for a class-level call)
    op,        \* the operation applied last ("new" after construction)
    arg,       \* the argument of that operation
    out,       \* what it returned, or the exception it raised
    pc,        \* the position of the generator made by IpNet.__iter__
    curr,      \* the generator's local variable curr
    yielded    \* the addresses the generator has yielded so far

vars == <<self, op, arg, out, pc, curr, yielded>>

None == [tag |-> "None"]
Raise(kind) == [tag |-> kind]
Bool(b) == [tag |-> "bool", val |-> b]
IsError(v) == v.tag \in {"ValueError", "TypeError", "StopIteration"}

-----------------------------------------------------------------------------
(* Unbounded naturals as binary numerals, least significant bit first.     *)

Zeros(n) == [i \in 1..n |-> 0]

\* b without its leading (most significant) zero bits
Norm(b) ==
    IF b = <<>> THEN <<>>
    ELSE IF b[Len(b)] = 1 THEN b
    ELSE LET top == {i \in 1..Len(b) : b[i] = 1}
         IN  IF top = {} THEN <<>>
             ELSE SubSeq(b, 1, CHOOSE i \in top : \A j \in top : j <= i)

RECURSIVE NatBits(_)
NatBits(n) == IF n = 0 THEN <<>> ELSE <<n % 2>> \o NatBits(n \div 2)

RECURSIVE BitsNat(_)
BitsNat(b) == IF b = <<>> THEN 0 ELSE b[1] + 2 * BitsNat(Tail(b))

BitAt(b, i) == IF i <= Len(b) THEN b[i] ELSE 0

NatLt(a, b) ==
    IF Len(a) # Len(b) THEN Len(a) < Len(b)
    ELSE \E i \in 1..Len(a) :
            /\ a[i] < b[i]
            /\ \A j \in (i + 1)..Len(a) : a[j] = b[j]

NatLeq(a, b) == a = b \/ NatLt(a, b)

\* a + b: bit i of the sum is a[i] + b[i] + the carry into i, and a carry
\* enters i when some lower position generates one that every position
\* between propagates.
NatAdd(a, b) ==
    LET n == (IF Len(a) < Len(b) THEN Len(b) ELSE Len(a)) + 1
        carry(i) == \E j \in 1..(i - 1) :
                       /\ BitAt(a, j) + BitAt(b, j) = 2
                       /\ \A k \in (j + 1)..(i - 1) : BitAt(a, k) + BitAt(b, k) >= 1
    IN  Norm([i \in 1..n |->
                (BitAt(a, i) + BitAt(b, i) + (IF carry(i) THEN 1 ELSE 0)) % 2])

\* a - b, for a >= b: the same with borrows
NatSub(a, b) ==
    LET borrow(i) == \E j \in 1..(i - 1) :
                        /\ BitAt(a, j) < BitAt(b, j)
                        /\ \A k \in (j + 1)..(i - 1) : BitAt(a, k) <= BitAt(b, k)
    IN  Norm([i \in 1..Len(a) |->
                (BitAt(a, i) - BitAt(b, i) - (IF borrow(i) THEN 1 ELSE 0)) % 2])

\* a << n
NatShl(a, n) == IF a = <<>> THEN <<>> ELSE Zeros(n) \o a

\* a >> n
NatShr(a, n) == IF n >= Len(a) THEN <<>> ELSE SubSeq(a, n + 1, Len(a))

\* a & b
NatAnd(a, b) ==
    LET n == IF Len(a) < Len(b) THEN Len(a) ELSE Len(b)
    IN  Norm([i \in 1..n |-> a[i] * b[i]])

\* a % m by long division: the bits of a from the most significant down,
\* r the remainder of the bits above them.  ModBits takes the bits hi down
\* to lo, one half of them after the other; a remainder is below m.
RECURSIVE ModBits(_, _, _, _, _)
ModBits(a, m, hi, lo, r) ==
    IF hi < lo THEN r
    ELSE IF hi = lo
    THEN LET r2 == Norm(<<a[hi]>> \o r)
         IN  IF NatLeq(m, r2) THEN NatSub(r2, m) ELSE r2
    ELSE LET mid == (hi + lo) \div 2
             upper == ModBits(a, m, hi, mid + 1, r)
         IN  IF NatLt(upper, m) THEN ModBits(a, m, mid, lo, upper) ELSE upper

NatMod(a, m) == ModBits(a, m, Len(a), 1, <<>>)

\* pow(2, n)
NatPow2(n) == Zeros(n) \o <<1>>

-----------------------------------------------------------------------------
(* Python ints: a sign and a magnitude.                                    *)

PyInt(b) == [neg |-> FALSE, mag |-> b]
Neg(b) == [neg |-> b # <<>>, mag |-> b]

IntLeq(x, y) ==
    IF x.neg /\ ~y.neg THEN TRUE
    ELSE IF ~x.neg /\ y.neg THEN FALSE
    ELSE IF x.neg THEN NatLeq(y.mag, x.mag)
    ELSE NatLeq(x.mag, y.mag)

\* ~x for x >= 0 is -(x + 1)
IntInvert(x) == Neg(NatAdd(x.mag, <<1>>))

\* int.from_bytes(octets, "big", signed=False): bytes(octets) first
RECURSIVE BytesBits(_)
BytesBits(octets) ==
    IF octets = <<>> THEN <<>>
    ELSE LET last == octets[Len(octets)]
             low == NatBits(last) \o Zeros(8 - Len(NatBits(last)))
         IN  low \o BytesBits(SubSeq(octets, 1, Len(octets) - 1))

from_bytes(octets) ==
    IF \E i \in 1..Len(octets) : octets[i] < 0 \/ octets[i] > 255
    THEN Raise("ValueError")
    ELSE [tag |-> "int", val |-> PyInt(Norm(BytesBits(octets)))]

\* n.to_bytes(4, "big", signed=False), for 0 <= n < 2^32
to_bytes4(b) ==
    LET padded == b \o Zeros(32 - Len(b))
    IN  [k \in 1..4 |-> BitsNat(SubSeq(padded, 8 * (4 - k) + 1, 8 * (4 - k) + 8))]

-----------------------------------------------------------------------------
(* Python strings as sequences of characters.                              *)

Str(chars) == [tag |-> "str", val |-> chars]

DigitChars == <<"0", "1", "2", "3", "4", "5", "6", "7", "8", "9">>
IsDigit(c) == \E d \in 1..10 : DigitChars[d] = c
DigitVal(c) == (CHOOSE d \in 1..10 : DigitChars[d] = c) - 1

\* str(n) for an int n >= 0
RECURSIVE str_int(_)
str_int(n) ==
    IF n < 10 THEN <<DigitChars[n + 1]>>
    ELSE str_int(n \div 10) \o <<DigitChars[(n % 10) + 1]>>

RECURSIVE DecVal(_)
DecVal(s) ==
    IF s = <<>> THEN 0
    ELSE 10 * DecVal(SubSeq(s, 1, Len(s) - 1)) + DigitVal(s[Len(s)])

\* int(tok) in base 10, for text over digits, signs and letters (no
\* whitespace or underscores, which int() also accepts in places)
int_str(tok) ==
    LET signed == tok # <<>> /\ tok[1] \in {"-", "+"}
        body == IF signed THEN Tail(tok) ELSE tok
    IN  IF body = <<>> \/ \E i \in 1..Len(body) : ~IsDigit(body[i])
        THEN Raise("ValueError")
        ELSE [tag |-> "int",
              val |-> IF signed /\ tok[1] = "-" THEN 0 - DecVal(body) ELSE DecVal(body)]

\* text.split(".")
RECURSIVE split(_)
split(text) ==
    IF \A i \in 1..Len(text) : text[i] # "." THEN <<text>>
    ELSE LET i == CHOOSE k \in 1..Len(text) :
                      text[k] = "." /\ \A j \in 1..(k - 1) : text[j] # "."
         IN  <<SubSeq(text, 1, i - 1)>> \o split(SubSeq(text, i + 1, Len(text)))

\* ".".join(parts)
RECURSIVE join(_)
join(parts) ==
    IF parts = <<>> THEN <<>>
    ELSE IF Len(parts) = 1 THEN parts[1]
    ELSE parts[1] \o <<".">> \o join(Tail(parts))

-----------------------------------------------------------------------------
(* class IpAddr                                                            *)

\* 0xFF_FF_FF_FF
IpAddr_MAX_NUM == PyInt(Norm(BytesBits(<<255, 255, 255, 255>>)))
IpAddr_MIN_NUM == PyInt(NatBits(0))

\* IpAddr.__init__
IpAddr(num) ==
    IF ~(IntLeq(IpAddr_MIN_NUM, num) /\ IntLeq(num, IpAddr_MAX_NUM))
    THEN Raise("ValueError")
    ELSE [tag |-> "IpAddr", num |-> num]

from_octets_little(octs) ==
    LET val == from_bytes([i \in 1..Len(octs) |-> octs[Len(octs) + 1 - i]])
    IN  IF val.tag = "ValueError" THEN val ELSE IpAddr(val.val)

from_octets(octs) ==
    LET val == from_bytes(octs)
    IN  IF val.tag = "ValueError" THEN val ELSE IpAddr(val.val)

from_str(text) ==
    LET toks == split(text)
        ints == [i \in 1..Len(toks) |-> int_str(toks[i])]
    IN  IF \E i \in 1..Len(toks) : ints[i].tag = "ValueError"
        THEN Raise("ValueError")
        ELSE from_octets([i \in 1..Len(toks) |-> ints[i].val])

\* IpAddr.__int__
int(a) == a.num

octets(a) == to_bytes4(int(a).mag)

\* IpAddr.__str__
IpAddr_str(a) == join([k \in 1..4 |-> str_int(octets(a)[k])])

\* IpAddr.__eq__, for other an IpAddr or an int
IpAddr_eq(a, other) ==
    IF other.tag = "IpAddr" THEN int(a) = int(other)
    ELSE IF other.tag = "int" THEN int(a) = other.val
    ELSE FALSE

\* IpAddr.__lshift__
IpAddr_lshift(a, amt) ==
    IF amt < 0 THEN Raise("ValueError")
    ELSE LET new_num == NatShl(int(a).mag, amt)
         IN  IpAddr(PyInt(NatMod(new_num, IpAddr_MAX_NUM.mag)))

\* IpAddr.__rshift__
IpAddr_rshift(a, amt) ==
    IF amt < 0 THEN Raise("ValueError")
    ELSE IpAddr(PyInt(NatShr(int(a).mag, amt)))

\* IpAddr.__invert__
IpAddr_invert(a) == IpAddr(IntInvert(int(a)))

-----------------------------------------------------------------------------
(* Calls on addresses: the inputs, and one action per operation.  The      *)
(* operations are pure, so a behaviour is one construction followed by one *)
(* call (and, after str, the parse of the text it returned).               *)

MaxShift == 33
MaxTokens == 5

OctetInputs == {0, 10, 255}
AddrInputs ==
    [1..4 -> OctetInputs]
        \cup {<<192, 168, 1, 10>>, <<128, 0, 0, 0>>, <<127, 0, 0, 1>>, <<1, 2, 3, 4>>}

TokenInputs == {<<"0">>, <<"9">>, <<"2", "5", "5">>, <<"2", "5", "6">>, <<"x">>, <<>>}
TextInputs ==
    {join(toks) : toks \in UNION {[1..n -> TokenInputs] : n \in 1..MaxTokens}}
        \cup {<<"-", "1", ".", "0", ".", "0", ".", "0">>}

NoGenerator == pc = "idle" /\ curr = None /\ yielded = <<>>

InitAddr ==
    /\ self \in {None} \cup {from_octets(o) : o \in AddrInputs}
    /\ op = "new"
    /\ arg = None
    /\ out = None
    /\ NoGenerator

\* str(self)
CallStr ==
    /\ self.tag = "IpAddr"
    /\ op = "new"
    /\ op' = "str"
    /\ arg' = None
    /\ out' = Str(IpAddr_str(self))
    /\ UNCHANGED <<self, pc, curr, yielded>>

\* IpAddr.from_str(str(self)): the text is the one str(self) returned
CallFromStrOfStr ==
    /\ self.tag = "IpAddr"
    /\ op = "str"
    /\ op' = "from_str"
    /\ arg' = out
    /\ out' = from_str(out.val)
    /\ UNCHANGED <<self, pc, curr, yielded>>

\* IpAddr.from_str(text), for a text the caller supplies
CallFromStr ==
    /\ self = None
    /\ op = "new"
    /\ \E text \in TextInputs :
          /\ op' = "from_str"
          /\ arg' = Str(text)
          /\ out' = from_str(text)
    /\ UNCHANGED <<self, pc, curr, yielded>>

\* ~self
CallInvert ==
    /\ self.tag = "IpAddr"
    /\ op = "new"
    /\ op' = "invert"
    /\ arg' = None
    /\ out' = IpAddr_invert(self)
    /\ UNCHANGED <<self, pc, curr, yielded>>

\* self << amt
CallAddrLshift ==
    /\ self.tag = "IpAddr"
    /\ op = "new"
    /\ \E amt \in 0..MaxShift :
          /\ op' = "lshift"
          /\ arg' = [tag |-> "int", val |-> amt]
          /\ out' = IpAddr_lshift(self, amt)
    /\ UNCHANGED <<self, pc, curr, yielded>>

\* self >> amt
CallAddrRshift ==
    /\ self.tag = "IpAddr"
    /\ op = "new"
    /\ \E amt \in 0..MaxShift :
          /\ op' = "rshift"
          /\ arg' = [tag |-> "int", val |-> amt]
          /\ out' = IpAddr_rshift(self, amt)
    /\ UNCHANGED <<self, pc, curr, yielded>>

NextAddr ==
    \/ CallStr
    \/ CallFromStrOfStr
    \/ CallFromStr
    \/ CallInvert
    \/ CallAddrLshift
    \/ CallAddrRshift

SpecAddr == InitAddr /\ [][NextAddr]_vars

-----------------------------------------------------------------------------
(* class IpMask                                                            *)

IpMask_MAX_NUM == 32
IpMask_MIN_NUM == 0

IpMask_wrap(num_network_bits) ==
    [tag |-> "IpMask", num_network_bits |-> num_network_bits % (IpMask_MAX_NUM + 1)]

\* IpMask.__init__, which assigns through the num_network_bits setter
IpMask(num_network_bits) ==
    IF ~(IpMask_MIN_NUM <= num_network_bits /\ num_network_bits <= IpMask_MAX_NUM)
    THEN Raise("ValueError")
    ELSE [tag |-> "IpMask", num_network_bits |-> num_network_bits]

num_host_bits(m) == IpMask_MAX_NUM - m.num_network_bits

as_addr(m) ==
    LET num == NatMod(NatShl(IpAddr_MAX_NUM.mag, num_host_bits(m)), IpAddr_MAX_NUM.mag)
    IN  IpAddr(PyInt(num))

apply(m, a) ==
    LET mask == as_addr(m)
        masked_addr == NatAnd(int(mask).mag, int(a).mag)
    IN  IpAddr(PyInt(masked_addr))

\* IpMask.__eq__
IpMask_eq(m, other) == m.num_network_bits = other.num_network_bits

\* IpMask.__lshift__
IpMask_lshift(m, amt) ==
    LET new_num == m.num_network_bits - amt
    IN  IpMask(new_num)

\* IpMask.__rshift__
IpMask_rshift(m, amt) == IpMask_lshift(m, 0 - amt)

-----------------------------------------------------------------------------
(* Calls on masks.                                                         *)

MaskInputs == {IpMask(p) : p \in IpMask_MIN_NUM..IpMask_MAX_NUM}

InitMask ==
    /\ self \in MaskInputs
    /\ op = "new"
    /\ arg = None
    /\ out = None
    /\ NoGenerator

\* self.as_addr()
CallAsAddr ==
    /\ self.tag = "IpMask"
    /\ op = "new"
    /\ op' = "as_addr"
    /\ arg' = None
    /\ out' = as_addr(self)
    /\ UNCHANGED <<self, pc, curr, yielded>>

\* self.apply(addr)
CallApply ==
    /\ self.tag = "IpMask"
    /\ op = "new"
    /\ \E o \in AddrInputs :
          /\ op' = "apply"
          /\ arg' = from_octets(o)
          /\ out' = apply(self, arg')
    /\ UNCHANGED <<self, pc, curr, yielded>>

\* self << amt
CallMaskLshift ==
    /\ self.tag = "IpMask"
    /\ op = "new"
    /\ \E amt \in (0 - MaxShift)..MaxShift :
          /\ op' = "lshift"
          /\ arg' = [tag |-> "int", val |-> amt]
          /\ out' = IpMask_lshift(self, amt)
    /\ UNCHANGED <<self, pc, curr, yielded>>

\* self >> amt
CallMaskRshift ==
    /\ self.tag = "IpMask"
    /\ op = "new"
    /\ \E amt \in (0 - MaxShift)..MaxShift :
          /\ op' = "rshift"
          /\ arg' = [tag |-> "int", val |-> amt]
          /\ out' = IpMask_rshift(self, amt)
    /\ UNCHANGED <<self, pc, curr, yielded>>

NextMask ==
    \/ CallAsAddr
    \/ CallApply
    \/ CallMaskLshift
    \/ CallMaskRshift

SpecMask == InitMask /\ [][NextMask]_vars

-----------------------------------------------------------------------------
(* class IpNet                                                             *)

\* IpNet.__init__
IpNet(base, mask) == [tag |-> "IpNet", base |-> base, mask |-> mask]

\* the property IpNet.addr
addr(n) == apply(n.mask, n.base)

min_addr(n) == addr(n)

num_hosts(n) == PyInt(NatPow2(num_host_bits(n.mask)))

max_addr(n) ==
    IpAddr(PyInt(NatSub(NatAdd(int(min_addr(n)).mag, num_hosts(n).mag), NatBits(1))))

contains(n, a) == IpAddr_eq(addr(n), apply(n.mask, a))

\* IpNet.__eq__
IpNet_eq(n, other) == IpAddr_eq(addr(n), addr(other)) /\ IpMask_eq(n.mask, other.mask)

is_adjacent(n, other) ==
    IF IpNet_eq(n, other) THEN Bool(FALSE)
    ELSE IF ~IpMask_eq(n.mask, other.mask) THEN Bool(FALSE)
    ELSE LET new_mask == IpMask(n.mask.num_network_bits - 1)
         IN  IF IsError(new_mask) THEN new_mask
             ELSE Bool(IpAddr_eq(apply(new_mask, addr(n)), apply(new_mask, addr(other))))

get_subnets(n) ==
    LET new_mask == IpMask(n.mask.num_network_bits + 1)
    IN  IF IsError(new_mask) THEN new_mask
        ELSE [tag |-> "tuple",
              items |-> <<IpNet(IpAddr(PyInt(NatBits(0))), new_mask),
                          IpNet(IpAddr(PyInt(NatBits(0))), new_mask)>>]

-----------------------------------------------------------------------------
(* Calls on networks.                                                      *)

NetBases ==
    {<<0, 0, 0, 0>>, <<128, 0, 0, 0>>, <<10, 0, 0, 0>>, <<10, 128, 0, 0>>,
     <<192, 168, 1, 10>>, <<192, 168, 0, 10>>, <<255, 255, 255, 254>>,
     <<255, 255, 255, 255>>}

NetInputs == {IpNet(from_octets(b), m) : b \in NetBases, m \in MaskInputs}

InitNet ==
    /\ self \in NetInputs
    /\ op = "new"
    /\ arg = None
    /\ out = None
    /\ NoGenerator

\* self.addr
CallAddr ==
    /\ self.tag = "IpNet"
    /\ op = "new"
    /\ op' = "addr"
    /\ arg' = None
    /\ out' = addr(self)
    /\ UNCHANGED <<self, pc, curr, yielded>>

\* self.min_addr()
CallMinAddr ==
    /\ self.tag = "IpNet"
    /\ op = "new"
    /\ op' = "min_addr"
    /\ arg' = None
    /\ out' = min_addr(self)
    /\ UNCHANGED <<self, pc, curr, yielded>>

\* self.max_addr()
CallMaxAddr ==
    /\ self.tag = "IpNet"
    /\ op = "new"
    /\ op' = "max_addr"
    /\ arg' = None
    /\ out' = max_addr(self)
    /\ UNCHANGED <<self, pc, curr, yielded>>

\* self.num_hosts()
CallNumHosts ==
    /\ self.tag = "IpNet"
    /\ op = "new"
    /\ op' = "num_hosts"
    /\ arg' = None
    /\ out' = [tag |-> "int", val |-> num_hosts(self)]
    /\ UNCHANGED <<self, pc, curr, yielded>>

\* The addresses contains is asked about: the network's own bounds, the
\* address after its last one (when there is one), and the bases.
ContainsInputs(n) ==
    {min_addr(n), max_addr(n),
     IpAddr(PyInt(NatAdd(int(max_addr(n)).mag, NatBits(1))))}
        \cup {from_octets(b) : b \in NetBases}

\* self.contains(addr)
CallContains ==
    /\ self.tag = "IpNet"
    /\ op = "new"
    /\ \E a \in ContainsInputs(self) :
          /\ a.tag = "IpAddr"
          /\ op' = "contains"
          /\ arg' = a
          /\ out' = Bool(contains(self, a))
    /\ UNCHANGED <<self, pc, curr, yielded>>

\* self.is_adjacent(other), for the networks of every base whose prefix is
\* as long as self's, or one bit shorter or longer
CallIsAdjacent ==
    /\ self.tag = "IpNet"
    /\ op = "new"
    /\ \E other \in NetInputs :
          /\ other.mask.num_network_bits - self.mask.num_network_bits \in {-1, 0, 1}
          /\ op' = "is_adjacent"
          /\ arg' = other
          /\ out' = is_adjacent(self, other)
    /\ UNCHANGED <<self, pc, curr, yielded>>

\* self.get_subnets()
CallGetSubnets ==
    /\ self.tag = "IpNet"
    /\ op = "new"
    /\ op' = "get_subnets"
    /\ arg' = None
    /\ out' = get_subnets(self)
    /\ UNCHANGED <<self, pc, curr, yielded>>

NextNet ==
    \/ CallAddr
    \/ CallMinAddr
    \/ CallMaxAddr
    \/ CallNumHosts
    \/ CallContains
    \/ CallIsAdjacent
    \/ CallGetSubnets

SpecNet == InitNet /\ [][NextNet]_vars

-----------------------------------------------------------------------------
(* IpNet.__iter__: a generator.  iter(net) makes it; each next() runs its  *)
(* body to the next yield, to its end, or to an exception.                 *)

\* The rich comparisons class IpAddr defines: ==, < and >.
IpAddrComparisons == {"__eq__", "__lt__", "__gt__"}

\* i <= a, for an int i and an IpAddr a.  int.__le__ does not take an
\* IpAddr, so Python turns to the reflected a.__ge__(i), and the comparison
\* is unsupported when the class has none.
int_le_IpAddr(i, a) ==
    IF "__ge__" \in IpAddrComparisons THEN Bool(IntLeq(i, int(a)))
    ELSE Raise("TypeError")

InitIter ==
    /\ self \in NetInputs
    /\ op = "new"
    /\ arg = None
    /\ out = None
    /\ NoGenerator

\* iter(self): a fresh generator; arg keeps what the one before it yielded
CallIter ==
    /\ self.tag = "IpNet"
    /\ pc \in {"idle", "done", "raised"}
    /\ op' = "iter"
    /\ arg' = IF pc = "idle" THEN None ELSE [tag |-> "list", items |-> yielded]
    /\ out' = [tag |-> "generator"]
    /\ pc' = "created"
    /\ curr' = None
    /\ yielded' = <<>>
    /\ UNCHANGED self

\* next(generator)
IterNext ==
    /\ pc \in {"created", "suspended"}
    /\ LET c == IF pc = "created" THEN int(min_addr(self))
                ELSE PyInt(NatAdd(curr.mag, NatBits(1)))
           test == int_le_IpAddr(c, max_addr(self))
       IN  /\ op' = "next"
           /\ curr' = c
           /\ IF IsError(test)
              THEN pc' = "raised" /\ out' = test /\ UNCHANGED yielded
              ELSE IF test.val
              THEN pc' = "suspended" /\ out' = IpAddr(c)
                   /\ yielded' = Append(yielded, IpAddr(c))
              ELSE pc' = "done" /\ out' = Raise("StopIteration") /\ UNCHANGED yielded
    /\ UNCHANGED <<self, arg>>

NextIter ==
    \/ CallIter
    \/ IterNext

SpecIter == InitIter /\ [][NextIter]_vars

-----------------------------------------------------------------------------
(* The properties.                                                         *)

Octets(a, b, c, d) == [tag |-> "IpAddr", num |-> PyInt(Norm(BytesBits(<<a, b, c, d>>)))]
Chars(a) == join([k \in 1..4 |-> str_int(a[k])])

\* 2^32 - 2^(32 - p): the top p of 32 bits set
Netmask(p) == NatSub(NatPow2(32), NatPow2(32 - p))

\* C1: for every prefix length p in 0..32, IpMask(p).as_addr() is the address
\* 2^32 - 2^(32-p), whose top p bits are 1 and whose other bits are 0.
C1_AsAddrIsNetmask ==
    (self.tag = "IpMask" /\ op = "as_addr") =>
        /\ out.tag = "IpAddr"
        /\ int(out).mag = Netmask(self.num_network_bits)

\* C2: parsing the dotted-decimal text str() gives for an address yields an
\* address of the same integer value.
C2_StrRoundTrip ==
    (self.tag = "IpAddr" /\ op = "from_str") =>
        /\ out.tag = "IpAddr"
        /\ int(out) = int(self)

C2_Witness ==
    /\ self = Octets(192, 168, 1, 10)
    /\ op = "from_str"
    /\ arg = Str(Chars(<<192, 168, 1, 10>>))
    /\ out = self

\* b with its low 32 - p bits cleared
Canonical(b, p) == NatSub(b, NatMod(b, NatPow2(32 - p)))

\* C3: the addr (and min_addr) of IpNet(b, IpMask(p)) is b with its low 32-p
\* bits cleared, max_addr is the last address of that block and num_hosts
\* is 2^(32-p).
C3_NetAddrClearsHostBits ==
    (self.tag = "IpNet" /\ op \in {"addr", "min_addr", "max_addr", "num_hosts"}) =>
        LET p == self.mask.num_network_bits
            a == Canonical(int(self.base).mag, p)
        IN  /\ op \in {"addr", "min_addr"} => (out.tag = "IpAddr" /\ int(out).mag = a)
            /\ op = "max_addr" =>
                  /\ out.tag = "IpAddr"
                  /\ int(out).mag = NatSub(NatAdd(a, NatPow2(32 - p)), NatBits(1))
            /\ op = "num_hosts" => out.val.mag = NatPow2(32 - p)

\* C4: a network of prefix length >= 1 contains its min_addr() and its
\* max_addr(), and does not contain the address after max_addr().
C4_ContainsOwnBounds ==
    (self.tag = "IpNet" /\ op = "contains" /\ self.mask.num_network_bits >= 1) =>
        /\ (arg = min_addr(self) \/ arg = max_addr(self)) => out.val
        /\ int(arg).mag = NatAdd(int(max_addr(self)).mag, NatBits(1)) => ~out.val

\* a | b
NatOr(a, b) ==
    LET n == IF Len(a) < Len(b) THEN Len(b) ELSE Len(a)
    IN  Norm([i \in 1..n |-> IF BitAt(a, i) + BitAt(b, i) >= 1 THEN 1 ELSE 0])

\* C5: for a network N of prefix length <= 31, get_subnets() returns N's two
\* children: both one bit longer, the first at N.addr, the second at
\* N.addr | (1 << (host_bits - 1)), distinct, and together covering N.
C5_SubnetsAreTheTwoChildren ==
    (self.tag = "IpNet" /\ op = "get_subnets" /\ self.mask.num_network_bits <= 31) =>
        /\ out.tag = "tuple"
        /\ LET lo == out.items[1]
               hi == out.items[2]
               half == NatPow2(num_host_bits(self.mask) - 1)
           IN  /\ lo.mask.num_network_bits = self.mask.num_network_bits + 1
               /\ hi.mask.num_network_bits = self.mask.num_network_bits + 1
               /\ addr(lo) = addr(self)
               /\ int(addr(hi)).mag = NatOr(int(addr(self)).mag, half)
               /\ ~IpNet_eq(lo, hi)
               /\ min_addr(lo) = min_addr(self)
               /\ int(min_addr(hi)).mag = NatAdd(int(max_addr(lo)).mag, NatBits(1))
               /\ max_addr(hi) = max_addr(self)

\* C6: iterating a network ends without an error, having yielded every
\* address from min_addr() to max_addr() in ascending order, each once; a
\* second iteration yields the same sequence.
C6_IterationYieldsEveryHost ==
    /\ pc # "raised"
    /\ pc = "done" =>
          /\ yielded # <<>>
          /\ yielded[1] = min_addr(self)
          /\ yielded[Len(yielded)] = max_addr(self)
          /\ \A i \in 1..(Len(yielded) - 1) :
                int(yielded[i + 1]).mag = NatAdd(int(yielded[i]).mag, NatBits(1))
          /\ arg.tag = "list" => yielded = arg.items

\* text is four tokens between periods, each a decimal integer in 0..255
FourOctets(text) ==
    LET toks == split(text)
    IN  /\ Len(toks) = 4
        /\ \A i \in 1..4 :
              /\ toks[i] # <<>>
              /\ \A k \in 1..Len(toks[i]) : IsDigit(toks[i][k])
              /\ DecVal(toks[i]) <= 255

\* C7: IpAddr.from_str raises unless the text is exactly four
\* period-separated decimal integers in 0..255, and succeeds only then.
C7_FromStrRejectsMalformed ==
    (self = None /\ op = "from_str") => (out.tag = "IpAddr" <=> FourOctets(arg.val))

\* C8: ~a and a << n never fail: ~a is 2^32 - 1 - a, and a << n is
\* (a * 2^n) mod 2^32.
C8_InvertAndLshiftReduceMod2_32 ==
    (self.tag = "IpAddr" /\ op \in {"invert", "lshift"}) =>
        /\ out.tag = "IpAddr"
        /\ op = "invert" =>
              int(out).mag = NatSub(NatSub(NatPow2(32), NatBits(1)), int(self).mag)
        /\ op = "lshift" =>
              int(out).mag = NatMod(NatShl(int(self).mag, arg.val), NatPow2(32))

\* the top k of the 32 bits of the base address of n
Prefix(n, k) == NatShr(int(n.base).mag, 32 - k)

\* n and m are the two halves of one network a bit shorter
Siblings(n, m) ==
    LET p == n.mask.num_network_bits
    IN  /\ m.mask.num_network_bits = p
        /\ Prefix(n, p) # Prefix(m, p)
        /\ Prefix(n, p - 1) = Prefix(m, p - 1)

\* C9: for networks N and M of prefix length >= 1, N.is_adjacent(M) is true
\* exactly when M differs from N, has N's mask and is the other half of the
\* network one bit shorter; so is_adjacent is symmetric on equal masks.
C9_AdjacentIffSiblings ==
    (/\ self.tag = "IpNet"
     /\ op = "is_adjacent"
     /\ self.mask.num_network_bits >= 1
     /\ arg.mask.num_network_bits >= 1) =>
        /\ out = Bool(Siblings(self, arg))
        /\ IpMask_eq(self.mask, arg.mask) => out = is_adjacent(arg, self)

\* what a shift of a mask of b bits by n gives
ShiftedMask(b, n) ==
    IF 0 <= b - n /\ b - n <= 32
    THEN [tag |-> "IpMask", num_network_bits |-> b - n]
    ELSE Raise("ValueError")

\* C10: a mask shift never wraps: IpMask(b) << n is a new IpMask(b - n) when
\* 0 <= b - n <= 32 and raises otherwise, the mask itself stays as it was,
\* and >> n is << -n.
C10_MaskShiftNeverWraps ==
    [][(self.tag = "IpMask" /\ op' \in {"lshift", "rshift"}) =>
          /\ self' = self
          /\ out' = ShiftedMask(self.num_network_bits,
                                IF op' = "lshift" THEN arg'.val ELSE 0 - arg'.val)]_vars

C10_Witness ==
    /\ self = [tag |-> "IpMask", num_network_bits |-> 32]
    /\ op = "lshift"
    /\ arg.val = 0 - 1
    /\ out.tag = "ValueError"

=============================================================================
